---- MODULE Spec2Model ----
(***************************************************************************)
(* Verification model of the document-ingestion pipeline:                  *)
(*   - chunkText / chunkTextSmart   (src/app/utils/text-chunker.ts)        *)
(*   - the upload handler POST      (api/ingest route)                     *)
(* Texts are sequences of one-character strings; offsets are the 0-based   *)
(* offsets of the source, converted to 1-based only inside Substring.      *)
(***************************************************************************)
EXTENDS Integers, Sequences, FiniteSets, TLC

VARIABLES
    fn,          \* which chunker is running: "chunkText" or "chunkTextSmart"
    text,        \* argument text
    chunkSize,   \* argument chunkSize
    overlap,     \* argument overlap
    pc,          \* position of the call: "call", "loop", "done", "diverged"
    startIndex,  \* local startIndex
    chunks,      \* local chunks (the return value once pc = "done")
    iters,       \* number of loop iterations executed so far
    cut,         \* the offsets computed by the latest loop iteration
    req,         \* POST: the parsed request and the environment it runs in
    ppc,         \* POST: "received", "embedding", "upserting", "responded"
    emb,         \* POST: the getEmbeddings call of each chunk: state and value
    embCalls,    \* POST: how many times getEmbeddings was called for each chunk
    arrived,     \* POST: chunk indexes in the order their embeddings arrived
    embeddings,  \* POST: the result array of Promise.all
    vectors,     \* POST: local vectors
    upserts,     \* POST: the upsert calls issued so far, in order
    response,    \* POST: the response returned
    isDragging,   \* FileUpload: state isDragging
    isUploading,  \* FileUpload: state isUploading
    uploadStatus, \* FileUpload: state uploadStatus
    inflight,     \* FileUpload: the file whose fetch is awaited, or NoFile
    timers,       \* FileUpload: clear timers scheduled and not yet fired
    started,      \* FileUpload: uploadFile calls so far
    lastEvent     \* FileUpload: the latest event and the status type it found

chunkVars == <<fn, text, chunkSize, overlap, pc, startIndex, chunks, iters, cut>>

postVars == <<req, ppc, emb, embCalls, arrived, embeddings, vectors, upserts, response>>

uiVars == <<isDragging, isUploading, uploadStatus, inflight, timers, started, lastEvent>>

vars == <<chunkVars, postVars, uiVars>>

-----------------------------------------------------------------------------
(* Bounds of the model *)

\* longest text of the exhaustive input family
MaxLen == 6
\* largest chunkSize of the exhaustive input family
MaxChunkSize == 3
\* largest overlap of the exhaustive input family (reaches overlap >= chunkSize)
MaxOverlap == 4

Alphabet == {"a", "b", " "}

-----------------------------------------------------------------------------
(* Strings *)

Min(a, b) == IF a < b THEN a ELSE b

Max(a, b) == IF a > b THEN a ELSE b

SetMax(S) == CHOOSE m \in S : \A x \in S : x <= m

SetMin(S) == CHOOSE m \in S : \A x \in S : m <= x

\* the characters String.prototype.trim removes, among those the model uses
IsWhitespace(c) == c \in {" ", "\n"}

\* text.trim()
Trim(s) ==
    LET keep == {i \in 1..Len(s) : ~IsWhitespace(s[i])}
    IN  IF keep = {} THEN <<>> ELSE SubSeq(s, SetMin(keep), SetMax(keep))

\* mutant of Substring: the substring is trimmed, as chunkTextSmart trims its chunks
SubstringTrimmed(s, a, b) ==
    Trim(SubSeq(s, Max(0, Min(a, Len(s))) + 1, Max(0, Min(b, Len(s)))))

\* text.substring(a, b): both offsets clamped to [0, length], swapped if a > b
Substring(s, a, b) ==
    LET ca == Max(0, Min(a, Len(s)))
        cb == Max(0, Min(b, Len(s)))
    IN  SubSeq(s, Min(ca, cb) + 1, Max(ca, cb))

\* s.lastIndexOf(m) for a non-empty m: the largest offset where m occurs, or -1
LastIndexOf(s, m) ==
    LET occ == {p \in 0..(Len(s) - Len(m)) : SubSeq(s, p + 1, p + Len(m)) = m}
    IN  IF occ = {} THEN -1 ELSE SetMax(occ)

\* all texts over alphabet A of length 0..n
RECURSIVE TextsUpTo(_, _)
TextsUpTo(A, n) ==
    IF n = 0 THEN {<<>>}
    ELSE LET shorter == TextsUpTo(A, n - 1)
         IN  shorter \cup {Append(t, c) : t \in {u \in shorter : Len(u) = n - 1}, c \in A}

-----------------------------------------------------------------------------
(* chunkText and chunkTextSmart *)

\* !text || text.trim().length === 0
IsBlank(t) == Len(t) = 0 \/ Len(Trim(t)) = 0

\* Math.min(startIndex + chunkSize, text.length)
EndIndex(start, size, len) == Min(start + size, len)

\* mutant of NextStart: the cursor advances by chunkSize, ignoring the overlap
NextStartNoOverlap(start, size, ov) == start + size

\* mutant of NextStart: the step is one character short
NextStartShort(start, size, ov) == start + size - ov - 1

\* chunkText: startIndex += chunkSize - overlap
NextStart(start, size, ov) == start + size - ov

\* Math.floor(chunkSize * 0.2); for the integers of the model the double
\* product floors to chunkSize div 5
SearchWidth(size) == size \div 5

sentenceEndings ==
    << <<".", " ">>, <<".", "\n">>, <<"!", " ">>, <<"!", "\n">>,
       <<"?", " ">>, <<"?", "\n">>, <<"\n", "\n">> >>

\* the for-loop over sentenceEndings, from ending k on, with lastBoundary = lb
RECURSIVE ScanEndings(_, _, _)
ScanEndings(searchText, k, lb) ==
    IF k > Len(sentenceEndings) THEN lb
    ELSE LET ending == sentenceEndings[k]
             pos == LastIndexOf(searchText, ending)
         IN  ScanEndings(searchText, k + 1,
                         IF pos > lb THEN pos + Len(ending) ELSE lb)

\* the end index chunkTextSmart cuts at, given the naive end index
SmartEnd(t, size, naive) ==
    IF naive < Len(t)
    THEN LET searchStart == naive - SearchWidth(size)
             searchText == Substring(t, searchStart, naive)
             lastBoundary == ScanEndings(searchText, 1, -1)
         IN  IF lastBoundary > 0 THEN searchStart + lastBoundary ELSE naive
    ELSE naive

\* the short-circuit return of chunkTextSmart for text.length <= chunkSize
SmartWhole(t) == <<t>>

\* The model stops following a loop after Len(text) + 1 iterations. The next
\* startIndex is a function of startIndex alone, and a run that reaches its
\* break visits each cursor position at most once, so it runs at most
\* Len(text) iterations while the cursor stays in [0, Len(text)); a cursor that
\* went negative only decreases. A loop that gets here never reaches its break.
IterLimit(t) == Len(t) + 1

NoCut == [start |-> 0, naive |-> 0, searchStart |-> 0, end |-> 0, searched |-> FALSE]

NoRequest ==
    [hasFile |-> FALSE, fileName |-> "", size |-> 0, blank |-> TRUE,
     namespace |-> <<>>, chunks |-> <<>>, indexName |-> ""]

NoResponse == [status |-> 0, body |-> "none"]

\* no request is being handled
PostIdle ==
    /\ req = NoRequest
    /\ ppc = "idle"
    /\ emb = <<>>
    /\ embCalls = <<>>
    /\ arrived = <<>>
    /\ embeddings = <<>>
    /\ vectors = <<>>
    /\ upserts = <<>>
    /\ response = NoResponse

\* useState({ type: null, message: '' })
NoStatus == [type |-> "null", message |-> <<>>]

NoFile == [name |-> "", type |-> "", size |-> 0]

NoEvent == [event |-> "none", from |-> "null"]

\* the FileUpload component as mounted, with no upload made
UiIdle ==
    /\ isDragging = FALSE
    /\ isUploading = FALSE
    /\ uploadStatus = NoStatus
    /\ inflight = NoFile
    /\ timers = 0
    /\ started = 0
    /\ lastEvent = NoEvent

\* entry of either function up to the loop head
Enter ==
    /\ pc = "call"
    /\ IF IsBlank(text)
       THEN /\ chunks' = <<>>
            /\ pc' = "done"
       ELSE IF Len(text) <= chunkSize
       THEN /\ chunks' = IF fn = "chunkText" THEN <<text>> ELSE SmartWhole(text)
            /\ pc' = "done"
       ELSE /\ chunks' = <<>>
            /\ pc' = "loop"
    /\ startIndex' = 0
    /\ UNCHANGED <<fn, text, chunkSize, overlap, iters, cut>>
    /\ UNCHANGED <<postVars, uiVars>>

\* one iteration of the while loop of chunkText
TextStep ==
    /\ fn = "chunkText"
    /\ pc = "loop"
    /\ iters < IterLimit(text)
    /\ IF startIndex < Len(text)
       THEN LET endIndex == EndIndex(startIndex, chunkSize, Len(text))
            IN  /\ chunks' = Append(chunks, Substring(text, startIndex, endIndex))
                /\ iters' = iters + 1
                /\ cut' = [start |-> startIndex, naive |-> endIndex,
                           searchStart |-> endIndex, end |-> endIndex,
                           searched |-> FALSE]
                /\ IF endIndex = Len(text)
                   THEN pc' = "done" /\ UNCHANGED startIndex
                   ELSE pc' = "loop"
                        /\ startIndex' = NextStart(startIndex, chunkSize, overlap)
       ELSE pc' = "done" /\ UNCHANGED <<chunks, iters, cut, startIndex>>
    /\ UNCHANGED <<fn, text, chunkSize, overlap>>
    /\ UNCHANGED <<postVars, uiVars>>

\* one iteration of the while loop of chunkTextSmart
SmartStep ==
    /\ fn = "chunkTextSmart"
    /\ pc = "loop"
    /\ iters < IterLimit(text)
    /\ IF startIndex < Len(text)
       THEN LET naive == EndIndex(startIndex, chunkSize, Len(text))
                endIndex == SmartEnd(text, chunkSize, naive)
                chunk == Trim(Substring(text, startIndex, endIndex))
            IN  /\ chunks' = IF Len(chunk) > 0 THEN Append(chunks, chunk) ELSE chunks
                /\ iters' = iters + 1
                /\ cut' = [start |-> startIndex, naive |-> naive,
                           searchStart |-> naive - SearchWidth(chunkSize),
                           end |-> endIndex, searched |-> naive < Len(text)]
                /\ IF endIndex = Len(text)
                   THEN pc' = "done" /\ UNCHANGED startIndex
                   ELSE pc' = "loop" /\ startIndex' = endIndex - overlap
       ELSE pc' = "done" /\ UNCHANGED <<chunks, iters, cut, startIndex>>
    /\ UNCHANGED <<fn, text, chunkSize, overlap>>
    /\ UNCHANGED <<postVars, uiVars>>

\* the loop has not reached its break within IterLimit iterations
Diverge ==
    /\ pc = "loop"
    /\ iters >= IterLimit(text)
    /\ pc' = "diverged"
    /\ UNCHANGED <<fn, text, chunkSize, overlap, startIndex, chunks, iters, cut>>
    /\ UNCHANGED <<postVars, uiVars>>

Init ==
    /\ fn \in {"chunkText", "chunkTextSmart"}
    /\ text \in TextsUpTo(Alphabet, MaxLen)
    /\ chunkSize \in 1..MaxChunkSize
    /\ overlap \in 0..MaxOverlap
    /\ pc = "call"
    /\ startIndex = 0
    /\ chunks = <<>>
    /\ iters = 0
    /\ cut = NoCut
    /\ PostIdle
    /\ UiIdle

Next == Enter \/ TextStep \/ SmartStep \/ Diverge

\* both chunkers on every text of the exhaustive input family
Spec == Init /\ [][Next]_vars

-----------------------------------------------------------------------------
(* chunkTextSmart on texts long enough for the boundary search to see a marker *)

\* smallest and largest chunkSize of the padded input family
MinSmartChunk == 13
MaxSmartChunk == 15
\* shortest and longest run of "a" before the free part of a padded text
MinPre == 10
MaxPre == 12
\* longest free part of a padded text
MaxMid == 3
\* longest run of "a" after the free part
MaxPost == 3

SmartAlphabet == {"a", ".", " ", "\n"}

Pad(n) == [i \in 1..n |-> "a"]

PaddedTexts ==
    {Pad(p) \o mid \o Pad(q) :
        p \in MinPre..MaxPre, mid \in TextsUpTo(SmartAlphabet, MaxMid), q \in 0..MaxPost}

InitSmart ==
    /\ fn = "chunkTextSmart"
    /\ text \in PaddedTexts
    /\ chunkSize \in MinSmartChunk..MaxSmartChunk
    /\ overlap \in 0..(chunkSize - 1)
    /\ pc = "call"
    /\ startIndex = 0
    /\ chunks = <<>>
    /\ iters = 0
    /\ cut = NoCut
    /\ PostIdle
    /\ UiIdle

NextSmart == Enter \/ SmartStep \/ Diverge

SpecSmart == InitSmart /\ [][NextSmart]_vars

-----------------------------------------------------------------------------
(* Claims about the chunkers *)

\* the parameters the claims call valid
ValidParams == chunkSize > 0 /\ 0 <= overlap /\ overlap < chunkSize

CeilDiv(a, b) == (a + b - 1) \div b

\* the smallest i with i*step + size >= len
LastChunkNo(len, size, step) ==
    CHOOSE k \in 0..len :
        /\ k * step + size >= len
        /\ \A j \in 0..(k - 1) : j * step + size < len

\* the untrimmed substrings text[i*step, min(i*step + size, len)) for i = 0..k
FixedRanges(t, size, ov) ==
    LET step == size - ov
        k == LastChunkNo(Len(t), size, step)
    IN  [n \in 1..(k + 1) |->
            SubSeq(t, (n - 1) * step + 1, Min((n - 1) * step + size, Len(t)))]

\* the first chunk followed by every later chunk without its first ov characters
RECURSIVE Reconstruct(_, _)
Reconstruct(cs, ov) ==
    IF Len(cs) = 0 THEN <<>>
    ELSE IF Len(cs) = 1 THEN cs[1]
    ELSE LET last == cs[Len(cs)]
         IN  Reconstruct(SubSeq(cs, 1, Len(cs) - 1), ov) \o SubSeq(last, ov + 1, Len(last))

\* C1: for a non-blank text longer than chunkSize and valid parameters,
\* chunkText returns, in order, exactly the untrimmed substrings
\* text[i*step, min(i*step + chunkSize, length)) for i = 0..k, k the smallest i
\* with i*step + chunkSize >= length.
C1_FixedRanges ==
    (fn = "chunkText" /\ ~IsBlank(text) /\ Len(text) > chunkSize /\ ValidParams)
        => /\ pc # "diverged"
           /\ pc = "done" => chunks = FixedRanges(text, chunkSize, overlap)

\* a call as in the 2500-character example: three chunks, overlapping, the last shorter
C1_Witness ==
    /\ fn = "chunkText" /\ pc = "done" /\ ~IsBlank(text) /\ ValidParams
    /\ Len(text) > chunkSize /\ overlap > 0
    /\ Len(chunks) = 3
    /\ Len(chunks[3]) < chunkSize

\* C2: for a non-blank text and valid parameters, the first chunk of chunkText
\* followed by every later chunk with its first overlap characters removed is
\* the text.
C2_Reconstructs ==
    (fn = "chunkText" /\ ~IsBlank(text) /\ ValidParams)
        => /\ pc # "diverged"
           /\ pc = "done" => Reconstruct(chunks, overlap) = text

\* a reconstruction from several overlapping chunks of a text of distinct neighbours
C2_Witness ==
    /\ fn = "chunkText" /\ pc = "done" /\ ~IsBlank(text) /\ ValidParams
    /\ overlap > 0 /\ Len(chunks) >= 3
    /\ \E i \in 1..(Len(text) - 1) : text[i] # text[i + 1]
    /\ Reconstruct(chunks, overlap) = text

\* C3: for a non-blank text no longer than chunkSize, chunkText returns the one
\* chunk text and chunkTextSmart returns the one chunk text.trim().
C3_ShortText ==
    (pc = "done" /\ ~IsBlank(text) /\ Len(text) <= chunkSize)
        => chunks = IF fn = "chunkText" THEN <<text>> ELSE <<Trim(text)>>

\* C6: chunkText reaches its end for a text longer than chunkSize > 0 also when
\* overlap >= chunkSize: its loop never runs on past the iterations a
\* terminating run can take (see IterLimit).
C6_Terminates ==
    (fn = "chunkText" /\ Len(text) > chunkSize /\ chunkSize > 0 /\ overlap >= chunkSize)
        => pc # "diverged"

\* C7: for valid parameters the loop of chunkText runs at most
\* ceil(length / (chunkSize - overlap)) iterations and emits at most that many
\* chunks.
C7_IterationBound ==
    (fn = "chunkText" /\ ValidParams)
        => /\ pc # "diverged"
           /\ iters <= CeilDiv(Len(text), chunkSize - overlap)
           /\ Len(chunks) <= CeilDiv(Len(text), chunkSize - overlap)

\* a finished loop of several iterations that meets the bound exactly
C7_Witness ==
    /\ fn = "chunkText" /\ pc = "done" /\ ValidParams
    /\ iters >= 3
    /\ iters = CeilDiv(Len(text), chunkSize - overlap)

\* the offsets just after the last occurrence, inside text[lo, hi), of each
\* sentence ending that occurs there
BoundaryOffsets(t, lo, hi) ==
    LET window == SubSeq(t, lo + 1, hi)
    IN  {lo + LastIndexOf(window, sentenceEndings[k]) + Len(sentenceEndings[k]) :
            k \in {j \in 1..Len(sentenceEndings) :
                      LastIndexOf(window, sentenceEndings[j]) # -1}}

\* C4: in every iteration of chunkTextSmart whose naive end is before the end
\* of the text, the cut is at the rightmost boundary offset of the window
\* text[end - floor(chunkSize*0.2), end): the maximum over the seven markers of
\* the offset just after the marker's last occurrence there, or the naive end
\* if no marker occurs there.
C4_RightmostBoundary ==
    (fn = "chunkTextSmart" /\ cut.searched)
        => LET offsets == BoundaryOffsets(text, cut.searchStart, cut.naive)
           IN  cut.end = IF offsets = {} THEN cut.naive ELSE SetMax(offsets)

\* C5: for valid parameters every iteration of chunkTextSmart that does not
\* stop moves the cursor strictly forward, and the call terminates.
C5_ForwardProgress ==
    (fn = "chunkTextSmart" /\ ValidParams)
        => /\ pc # "diverged"
           /\ (pc = "loop" /\ iters > 0) => startIndex > cut.start

-----------------------------------------------------------------------------
(* The upload handler POST *)

\* most chunks chunkTextSmart(text, 1000, 200) returns in the model
MaxPostChunks == 3
\* batchSize of the upsert loop. The source sets 100; the model scales it down
\* so that a document of MaxPostChunks chunks needs more than one batch.
batchSize == 2

\* the chunks of the uploaded documents
ChunkTexts == {"c1", "c2"}
\* the vectors the embedding provider may return
EmbeddingValues == {"e1", "e2"}
\* the uploaded file names; "" is a file without originalFilename
FileNames == {"", "notes.txt", "README.MD", "paper.pdf"}
\* fields.namespace: <<>> is a form without the field
NamespaceFields == {<<>>, <<"">>, <<"docs">>}
\* process.env.PINECONE_INDEX
IndexNames == {"", "idx"}

\* validateFileSize: maxSizeMB * 1024 * 1024 with the default maxSizeMB = 4
MaxSizeBytes == 4 * 1024 * 1024

\* file.size: a file within the limit, one at the limit, one over it
FileSizes == {MaxSizeBytes \div 2, MaxSizeBytes, MaxSizeBytes + 1}

\* getFileExtension on the file names of the model
getFileExtension(name) ==
    CASE name = "notes.txt" -> "txt"
      [] name = "README.MD" -> "md"
      [] name = "paper.pdf" -> "pdf"
      [] OTHER -> ""

validateFileType(name) == getFileExtension(name) \in {"txt", "md"}

\* validateFileSize(file.size || 0)
validateFileSize(size) == size <= MaxSizeBytes

\* a || b on strings
Or(a, b) == IF a = "" THEN b ELSE a

\* const namespace = fields.namespace || ''
Namespace(r) == IF r.namespace = <<>> THEN "" ELSE Or(r.namespace[1], "")

\* the namespace the batches are upserted under: index.namespace(namespace || '')
UpsertNamespace(r) == Or(Namespace(r), "")

\* the namespace recorded in the vectors: namespace || 'default'
MetadataNamespace(r) == Or(Namespace(r), "default")

Pending == [state |-> "pending", value |-> "none"]

\* mutant of Settle: the value is stored at the position of its arrival
SettleByArrival(results, i, v, order) == [results EXCEPT ![Len(order) + 1] = v]

\* Promise.all stores the value of the i-th promise at index i of its result
Settle(results, i, v, order) == [results EXCEPT ![i] = v]

\* chunks.map((chunk, index) => ({id, values, metadata})); Date.now() and
\* uploadedAt are clock readings and are left out of id and metadata
BuildVectors(r, values) ==
    [k \in 1..Len(r.chunks) |->
        [id |-> <<MetadataNamespace(r), Or(r.fileName, "file"), k - 1>>,
         values |-> values[k],
         metadata |->
            [text |-> r.chunks[k],
             chunk |-> r.chunks[k],
             fileName |-> Or(r.fileName, "unknown"),
             fileType |-> getFileExtension(r.fileName),
             chunkIndex |-> k - 1,
             totalChunks |-> Len(r.chunks),
             namespace |-> MetadataNamespace(r)]]]

\* the call index.namespace(namespace || '').upsert(vectors.slice(i, i + batchSize))
UpsertCall(r, vs, i) ==
    [namespace |-> UpsertNamespace(r),
     first |-> i,
     batch |-> SubSeq(vs, i + 1, Min(i + batchSize, Len(vs))),
     state |-> "pending"]

Respond(status, body) ==
    /\ response' = [status |-> status, body |-> body]
    /\ ppc' = "responded"

\* from the request to the await of Promise.all: parsing, validation, text
\* extraction, chunking, and one getEmbeddings call per chunk
Receive ==
    /\ ppc = "received"
    /\ IF ~req.hasFile
       THEN Respond(400, "No file uploaded") /\ UNCHANGED <<emb, embCalls, embeddings>>
       ELSE IF req.fileName = ""
       THEN Respond(400, "Invalid file") /\ UNCHANGED <<emb, embCalls, embeddings>>
       ELSE IF ~validateFileType(req.fileName)
       THEN Respond(400, "Invalid file type") /\ UNCHANGED <<emb, embCalls, embeddings>>
       ELSE IF ~validateFileSize(req.size)
       THEN Respond(400, "File size exceeds 4MB limit")
            /\ UNCHANGED <<emb, embCalls, embeddings>>
       ELSE IF req.blank
       THEN Respond(400, "No text content found in file")
            /\ UNCHANGED <<emb, embCalls, embeddings>>
       ELSE IF Len(req.chunks) = 0
       THEN Respond(500, "Failed to process file content")
            /\ UNCHANGED <<emb, embCalls, embeddings>>
       ELSE /\ emb' = [k \in 1..Len(req.chunks) |-> Pending]
            /\ embCalls' = [k \in 1..Len(req.chunks) |-> 1]
            /\ embeddings' = [k \in 1..Len(req.chunks) |-> "none"]
            /\ ppc' = "embedding"
            /\ UNCHANGED response
    /\ UNCHANGED <<req, arrived, vectors, upserts>>
    /\ UNCHANGED <<chunkVars, uiVars>>

\* the getEmbeddings call of chunk i returns the provider's vector v
EmbedFulfil(i, v) ==
    /\ ppc # "received"
    /\ i \in 1..Len(emb)
    /\ emb[i].state = "pending"
    /\ emb' = [emb EXCEPT ![i] = [state |-> "fulfilled", value |-> v]]
    /\ embeddings' = Settle(embeddings, i, v, arrived)
    /\ arrived' = Append(arrived, i)
    /\ UNCHANGED <<req, ppc, embCalls, vectors, upserts, response>>
    /\ UNCHANGED <<chunkVars, uiVars>>

\* the getEmbeddings call of chunk i throws; if Promise.all is still awaited
\* it rejects and the catch block responds
EmbedReject(i) ==
    /\ ppc # "received"
    /\ i \in 1..Len(emb)
    /\ emb[i].state = "pending"
    /\ emb' = [emb EXCEPT ![i] = [state |-> "rejected", value |-> "none"]]
    /\ IF ppc = "embedding"
       THEN Respond(500, "Failed to process file")
       ELSE UNCHANGED <<ppc, response>>
    /\ UNCHANGED <<req, embCalls, arrived, embeddings, vectors, upserts>>
    /\ UNCHANGED <<chunkVars, uiVars>>

\* Promise.all is fulfilled: build the vectors, look up the index, and issue
\* the upsert of the first batch
Prepare ==
    /\ ppc = "embedding"
    /\ \A k \in 1..Len(emb) : emb[k].state = "fulfilled"
    /\ vectors' = BuildVectors(req, embeddings)
    /\ IF req.indexName = ""
       THEN Respond(500, "Pinecone index not configured") /\ UNCHANGED upserts
       ELSE /\ upserts' = <<UpsertCall(req, vectors', 0)>>
            /\ ppc' = "upserting"
            /\ UNCHANGED response
    /\ UNCHANGED <<req, emb, embCalls, arrived, embeddings>>
    /\ UNCHANGED <<chunkVars, uiVars>>

\* mutant of UpsertReject: the failed batch is upserted again
UpsertRejectRetry ==
    /\ ppc = "upserting"
    /\ upserts[Len(upserts)].state = "pending"
    /\ upserts' = Append([upserts EXCEPT ![Len(upserts)].state = "failed"],
                         UpsertCall(req, vectors, upserts[Len(upserts)].first))
    /\ UNCHANGED <<req, ppc, emb, embCalls, arrived, embeddings, vectors, response>>
    /\ UNCHANGED <<chunkVars, uiVars>>

\* the awaited upsert resolves: issue the next batch, or respond with success
UpsertResolve ==
    /\ ppc = "upserting"
    /\ upserts[Len(upserts)].state = "pending"
    /\ LET done == [upserts EXCEPT ![Len(upserts)].state = "ok"]
           i == upserts[Len(upserts)].first + batchSize
       IN  IF i < Len(vectors)
           THEN /\ upserts' = Append(done, UpsertCall(req, vectors, i))
                /\ UNCHANGED <<ppc, response>>
           ELSE /\ upserts' = done
                /\ Respond(200, "File processed successfully")
    /\ UNCHANGED <<req, emb, embCalls, arrived, embeddings, vectors>>
    /\ UNCHANGED <<chunkVars, uiVars>>

\* the awaited upsert throws: the catch block responds
UpsertReject ==
    /\ ppc = "upserting"
    /\ upserts[Len(upserts)].state = "pending"
    /\ upserts' = [upserts EXCEPT ![Len(upserts)].state = "failed"]
    /\ Respond(500, "Failed to process file")
    /\ UNCHANGED <<req, emb, embCalls, arrived, embeddings, vectors>>
    /\ UNCHANGED <<chunkVars, uiVars>>

\* all sequences over S of length 1..n
RECURSIVE SeqsUpTo(_, _)
SeqsUpTo(S, n) ==
    IF n = 0 THEN {}
    ELSE SeqsUpTo(S, n - 1) \cup [1..n -> S]

\* the requests of the model. The chunks stand for the value of
\* chunkTextSmart(text, 1000, 200), which for a non-blank text is a non-empty
\* sequence of non-empty strings.
Requests ==
    [hasFile : BOOLEAN, fileName : FileNames, size : FileSizes, blank : BOOLEAN,
     namespace : NamespaceFields, chunks : SeqsUpTo(ChunkTexts, MaxPostChunks),
     indexName : IndexNames]

InitPost ==
    /\ req \in Requests
    /\ ppc = "received"
    /\ emb = <<>>
    /\ embCalls = <<>>
    /\ arrived = <<>>
    /\ embeddings = <<>>
    /\ vectors = <<>>
    /\ upserts = <<>>
    /\ response = NoResponse
    /\ UiIdle
    /\ fn = "chunkTextSmart"
    /\ text = <<>>
    /\ chunkSize = 1000
    /\ overlap = 200
    /\ pc = "call"
    /\ startIndex = 0
    /\ chunks = <<>>
    /\ iters = 0
    /\ cut = NoCut

NextPost ==
    \/ Receive
    \/ \E i \in 1..MaxPostChunks, v \in EmbeddingValues : EmbedFulfil(i, v)
    \/ \E i \in 1..MaxPostChunks : EmbedReject(i)
    \/ Prepare
    \/ UpsertResolve
    \/ UpsertReject

SpecPost == InitPost /\ [][NextPost]_vars

-----------------------------------------------------------------------------
(* Claims about the upload handler *)

\* C8: whatever the order in which the embedding calls complete, the vector
\* built for index i carries the embedding returned for chunk i, the text of
\* chunk i, chunkIndex i and totalChunks chunks.length.
C8_VectorsMatchChunks ==
    vectors # <<>>
        => /\ Len(vectors) = Len(req.chunks)
           /\ \A k \in 1..Len(vectors) :
                /\ vectors[k].values = emb[k].value
                /\ vectors[k].metadata.text = req.chunks[k]
                /\ vectors[k].metadata.chunkIndex = k - 1
                /\ vectors[k].metadata.totalChunks = Len(req.chunks)

\* vectors built after the embedding of a later chunk arrived before that of an
\* earlier chunk, with a different value
C8_Witness ==
    /\ vectors # <<>>
    /\ \E a, b \in 1..Len(arrived) :
        /\ a < b
        /\ arrived[a] > arrived[b]
        /\ emb[arrived[a]].value # emb[arrived[b]].value
        /\ req.chunks[arrived[a]] # req.chunks[arrived[b]]

\* the batches whose upsert was issued starting at vector i
UpsertsOf(i) == {j \in 1..Len(upserts) : upserts[j].first = i}

AnyEmbeddingFailed == \E k \in 1..Len(emb) : emb[k].state = "rejected"

AnyUpsertFailed == \E j \in 1..Len(upserts) : upserts[j].state = "failed"

\* C9: nothing is retried and the first failure aborts the request: every
\* embedding call and every upsert batch is attempted at most once; if an
\* embedding call fails no upsert is issued; if the upsert of a batch fails no
\* later batch is issued; in both cases the response has status 500.
C9_NoRetryAbort ==
    /\ \A k \in 1..Len(embCalls) : embCalls[k] <= 1
    /\ \A j \in 1..Len(upserts) : Cardinality(UpsertsOf(upserts[j].first)) <= 1
    /\ AnyEmbeddingFailed => upserts = <<>>
    /\ \A j \in 1..Len(upserts) : upserts[j].state = "failed" => j = Len(upserts)
    /\ (AnyEmbeddingFailed \/ AnyUpsertFailed)
            => ppc = "responded" /\ response.status = 500

\* the upsert of the first batch failed while vectors remained for a second batch
C9_Witness ==
    /\ Len(upserts) = 1
    /\ upserts[1].state = "failed"
    /\ Len(vectors) > batchSize
    /\ response.status = 500

\* C10: when the namespace field is empty or absent, every vector is upserted
\* under the namespace "default": the namespace passed to the upsert equals the
\* namespace recorded in each vector's metadata, which is "default".
C10_DefaultNamespace ==
    (req.namespace \in {<<>>, <<"">>})
        => \A j \in 1..Len(upserts) :
              /\ upserts[j].namespace = "default"
              /\ \A k \in 1..Len(upserts[j].batch) :
                    upserts[j].batch[k].metadata.namespace = upserts[j].namespace

-----------------------------------------------------------------------------
(* The FileUpload component *)

\* most uploadFile calls of one run of the model
MaxUploads == 3

\* file.type of the files the user picks or drops
FileTypes == {"text/plain", "application/pdf", ""}

\* the files the user picks or drops
Files == [name : FileNames \ {""}, type : FileTypes, size : FileSizes]

\* data.chunks of a successful response
ChunkCounts == {1, 2}

\* data.error of a failed response ("" is a body without error), and the
\* message of the Error a failed fetch throws
FailureMessages ==
    {"", "No text content found in file", "Failed to process file", "Failed to fetch"}

\* validateFile: the error message, or "" for null
validateFile(file) ==
    IF file.type \notin {"text/plain", "text/markdown"}
            /\ getFileExtension(file.name) \notin {"txt", "md"}
    THEN "Invalid file type. Only TXT and MD files are supported (PDF temporarily unavailable)."
    ELSE IF file.size > MaxSizeBytes
    THEN "File size exceeds 4MB limit."
    ELSE ""

\* the drop zone takes no pointer events and the input is disabled while uploading
Interactive == ~isUploading

\* handleDragOver
DragOver ==
    /\ Interactive
    /\ isDragging' = TRUE
    /\ lastEvent' = [event |-> "dragOver", from |-> uploadStatus.type]
    /\ UNCHANGED <<isUploading, uploadStatus, inflight, timers, started>>
    /\ UNCHANGED <<chunkVars, postVars>>

\* handleDragLeave
DragLeave ==
    /\ Interactive
    /\ isDragging' = FALSE
    /\ lastEvent' = [event |-> "dragLeave", from |-> uploadStatus.type]
    /\ UNCHANGED <<isUploading, uploadStatus, inflight, timers, started>>
    /\ UNCHANGED <<chunkVars, postVars>>

\* handleDrop (dropped) or handleFileInput, and uploadFile up to its await of fetch
UploadFile(file, dropped) ==
    /\ Interactive
    /\ started < MaxUploads
    /\ started' = started + 1
    /\ isDragging' = IF dropped THEN FALSE ELSE isDragging
    /\ IF validateFile(file) # ""
       THEN /\ uploadStatus' = [type |-> "error", message |-> <<validateFile(file)>>]
            /\ lastEvent' = [event |-> "validation", from |-> uploadStatus.type]
            /\ UNCHANGED <<isUploading, inflight>>
       ELSE /\ isUploading' = TRUE
            /\ uploadStatus' = NoStatus
            /\ inflight' = file
            /\ lastEvent' = [event |-> "start", from |-> uploadStatus.type]
    /\ UNCHANGED timers
    /\ UNCHANGED <<chunkVars, postVars>>

\* the response is ok: show the success message and schedule its clear timer
FetchOk(n) ==
    /\ isUploading
    /\ uploadStatus' = [type |-> "success",
                        message |-> <<"Successfully uploaded", inflight.name, n>>]
    /\ timers' = timers + 1
    /\ isUploading' = FALSE
    /\ inflight' = NoFile
    /\ lastEvent' = [event |-> "success", from |-> uploadStatus.type]
    /\ UNCHANGED <<isDragging, started>>
    /\ UNCHANGED <<chunkVars, postVars>>

\* the response is not ok, or fetch throws: the catch block shows the error
FetchFail(msg) ==
    /\ isUploading
    /\ uploadStatus' = [type |-> "error", message |-> <<Or(msg, "Upload failed")>>]
    /\ isUploading' = FALSE
    /\ inflight' = NoFile
    /\ lastEvent' = [event |-> "failure", from |-> uploadStatus.type]
    /\ UNCHANGED <<isDragging, timers, started>>
    /\ UNCHANGED <<chunkVars, postVars>>

\* the callback of setTimeout(..., 5000) runs
TimerFire ==
    /\ timers > 0
    /\ timers' = timers - 1
    /\ uploadStatus' = NoStatus
    /\ lastEvent' = [event |-> "timer", from |-> uploadStatus.type]
    /\ UNCHANGED <<isDragging, isUploading, inflight, started>>
    /\ UNCHANGED <<chunkVars, postVars>>

InitUpload ==
    /\ UiIdle
    /\ PostIdle
    /\ fn = "chunkTextSmart"
    /\ text = <<>>
    /\ chunkSize = 1000
    /\ overlap = 200
    /\ pc = "call"
    /\ startIndex = 0
    /\ chunks = <<>>
    /\ iters = 0
    /\ cut = NoCut

NextUpload ==
    \/ DragOver
    \/ DragLeave
    \/ \E file \in Files, dropped \in BOOLEAN : UploadFile(file, dropped)
    \/ \E n \in ChunkCounts : FetchOk(n)
    \/ \E msg \in FailureMessages : FetchFail(msg)
    \/ TimerFire

SpecUpload == InitUpload /\ [][NextUpload]_vars

\* C11: an error status stays displayed until the next upload starts: the only
\* event that changes uploadStatus from type 'error' to type null is the start
\* of a new upload, never the clear timer of an earlier successful upload.
C11_ErrorStaysUntilNextUpload ==
    (lastEvent.from = "error" /\ uploadStatus.type = "null")
        => lastEvent.event = "start"

====
